---- MODULE Spec2Model ----
(***************************************************************************)
(* URLChecker (src/src/utils.js): one checkUrls run of the concurrent URL  *)
(* availability checker, followed by printReport.                          *)
(*                                                                         *)
(* JavaScript objects are records; an optional value (an option that may   *)
(* not be supplied) is a sequence of length 0 or 1.  A status is either a  *)
(* number, [num |-> 200], or a string sentinel, [str |-> "TIMEOUT"], so    *)
(* that the numeric comparisons of the classifier behave as in JavaScript  *)
(* (a comparison of a non-numeric string with a number is false).          *)
(***************************************************************************)
EXTENDS Integers, Sequences, FiniteSets, TLC

VARIABLES
    options,    \* the options object the caller constructed the checker with
    checker,    \* the URLChecker instance: concurrent, timeout, maxRetries
    transport,  \* per URL, what a fetch of it can end with (the network)
    urls,       \* the caller's input sequence of URL records
    pc,         \* position of the checkUrls run
    results,    \* the ResultSet of the run
    chunks,     \* const chunks = this.chunkArray(urls, this.concurrent)
    chunkIdx,   \* index (1-based) of the chunk the for-of loop is at
    promises,   \* the promises of the current chunk, by index in the chunk
    processed,  \* let processed
    probes,     \* instrumentation: per input line, the transport's log of probes
    calls,      \* instrumentation: per input line, how the calls for it completed
    delays,     \* instrumentation: per input line, the sleep(ms) calls of its retries
    report,     \* <<what printReport returned>>, <<>> before it ran
    previous,   \* <<the bucket counts of the run before this one>>, <<>> if none
    order,      \* instrumentation: the indexes of the chunk's promises, as they
                \* settled, in the specification that keeps them
    timers,     \* the pending timeout timers of checkSingleUrl: [line, attempt]
    pauses,     \* instrumentation: the sleep(ms) calls of checkUrls between chunks
    markers,    \* instrumentation: the progress markers written to stdout
    heap,       \* the ResultSet objects allocated by the invocations of runs
    runs,       \* the invocations of checkUrls on the checker that may overlap
    argv,       \* the arguments of the command line after `node src/index.js`
    exitCode    \* <<the exit code of the process>>, <<>> while it runs

vars == <<options, checker, transport, urls, pc, results, chunks, chunkIdx,
          promises, processed, probes, calls, delays, order, timers, pauses,
          markers,
          report, previous, heap, runs, argv, exitCode>>

\* What no step of a run changes: the caller's options, the checker's
\* fields, the network, what came before the run, the other invocations
\* and the process
caller == <<options, checker, transport, previous, heap, runs, argv, exitCode>>

\* caller, and the caller's input, which only the forEach has in its hands
fixed == <<caller, urls>>

----------------------------------------------------------------------------
(* Bounds of the model *)

MaxUrls == 2

----------------------------------------------------------------------------
(* Program constants *)

DefaultConcurrent == 10
DefaultTimeout == 5000
DefaultMaxRetries == 2
RetryDelayUnit == 1000
ChunkPause == 100
ProgressStep == 50

Undefined == "undefined"

Num(n) == [num |-> n]
Str(s) == [str |-> s]

IsNum(status) == "num" \in DOMAIN status

\* JavaScript `status >= lo && status < hi` : false for a non-numeric string
InRange(status, lo, hi) == IsNum(status) /\ status.num >= lo /\ status.num < hi

\* JavaScript `a || b` on an optional number: undefined and 0 are falsy
OrDefault(opt, default) ==
    IF opt # <<>> /\ opt[1] # 0 THEN opt[1] ELSE default

\* constructor(options = {})
URLChecker(opts) ==
    [ concurrent |-> OrDefault(opts.concurrent, DefaultConcurrent),
      timeout    |-> OrDefault(opts.timeout, DefaultTimeout),
      maxRetries |-> OrDefault(opts.maxRetries, DefaultMaxRetries) ]

----------------------------------------------------------------------------
(* The transport: what fetch(urlData.url, {method: 'HEAD', redirect:        *)
(* 'follow', signal}) can do for one probe.                                 *)

ValidUrls == {"http://a", "http://a/"}
MalformedUrls == {"not-a-url"}
Urls == ValidUrls \cup MalformedUrls
\* Where a followed redirect chain can end: back at the requested page, or
\* at another one
RedirectTargets == {"http://a/", "http://b/"}

\* response.url is the serialized URL: a URL without a path gets the path "/"
Normalize(u) == IF u = "http://a" THEN "http://a/" ELSE u

HttpStatuses == {200, 301, 404, 500}

StatusText(s) ==
    CASE s = 200 -> "OK"
      [] s = 301 -> "Moved Permanently"
      [] s = 404 -> "Not Found"
      [] s = 500 -> "Internal Server Error"
      [] OTHER   -> ""

\* Date.now() - startTime on the response path
Elapsed == 120

\* The Response objects fetch can resolve to for a request of url: the final
\* response of a followed redirect chain (redirected, url = the last URL of
\* the chain), or the response of the requested URL itself.
Responses(url) ==
    { [ status     |-> s,
        statusText |-> StatusText(s),
        redirected |-> FALSE,
        url        |-> Normalize(url) ] : s \in HttpStatuses }
    \cup
    { [ status     |-> s,
        statusText |-> StatusText(s),
        redirected |-> TRUE,
        url        |-> t ] : s \in HttpStatuses, t \in RedirectTargets }

AbortError ==
    [name |-> "AbortError", code |-> Undefined, message |-> "This operation was aborted"]

\* The failures fetch can reject with, other than the abort of the timeout
TransportErrors(url) ==
    IF url \in MalformedUrls
    THEN { [name |-> "TypeError", code |-> Undefined, message |-> "Invalid URL"] }
    ELSE { [name |-> "FetchError", code |-> "ECONNRESET", message |-> "socket hang up"],
           [name |-> "FetchError", code |-> "ENOTFOUND", message |-> "getaddrinfo ENOTFOUND"] }

Responded(response) == [type |-> "response", response |-> response]
Failed(error) == [type |-> "error", error |-> error]
InFlight == [type |-> "inflight"]

\* Everything a fetch of url can end with: a failure of its own and, when the
\* request could be sent at all, a response or the abort of the timeout
Events(url) ==
    { Failed(error) : error \in TransportErrors(url) }
    \cup (IF url \in ValidUrls
          THEN { Responded(response) : response \in Responses(url) }
               \cup {Failed(AbortError)}
          ELSE {})

\* The network on which a fetch can end in any of these ways
AnyTransport == [url \in Urls |-> Events(url)]

----------------------------------------------------------------------------
(* URLChecker methods *)

\* `Timeout après ${this.timeout}ms`
TimeoutText(ms) ==
    CASE ms = 5000 -> "Timeout après 5000ms"
      [] ms = 8000 -> "Timeout après 8000ms"
      [] OTHER     -> "Timeout après <n>ms"

Return(value) == [kind |-> "return", value |-> value]
Throw(error) == [kind |-> "throw", error |-> error]

\* checkSingleUrl testing error.name === 'TimeoutError' in its catch: the
\* abort of the timeout is reported as any other failure
checkSingleUrlWrongName(self, urlData, ev) ==
    IF ev.type = "response"
    THEN Return([ status       |-> Num(ev.response.status),
                  statusText   |-> ev.response.statusText,
                  responseTime |-> Elapsed,
                  redirected   |-> ev.response.redirected,
                  finalUrl     |-> IF ev.response.url # urlData.url
                                   THEN ev.response.url ELSE Undefined,
                  timeout      |-> FALSE ])
    ELSE Return([ status       |-> Str("ERROR"),
                  statusText   |-> ev.error.message,
                  timeout      |-> FALSE,
                  error        |-> IF ev.error.code # Undefined
                                   THEN ev.error.code ELSE ev.error.message,
                  responseTime |-> self.timeout ])

\* checkSingleUrl letting a failure other than the abort escape its catch
checkSingleUrlRethrows(self, urlData, ev) ==
    IF ev.type = "response"
    THEN Return([ status       |-> Num(ev.response.status),
                  statusText   |-> ev.response.statusText,
                  responseTime |-> Elapsed,
                  redirected   |-> ev.response.redirected,
                  finalUrl     |-> IF ev.response.url # urlData.url
                                   THEN ev.response.url ELSE Undefined,
                  timeout      |-> FALSE ])
    ELSE IF ev.error.name = "AbortError"
    THEN Return([ status       |-> Str("TIMEOUT"),
                  statusText   |-> TimeoutText(self.timeout),
                  timeout      |-> TRUE,
                  error        |-> "Request timeout",
                  responseTime |-> self.timeout ])
    ELSE Throw(ev.error)

\* checkSingleUrl without its catch: every failure of fetch escapes
checkSingleUrlNoCatch(self, urlData, ev) ==
    IF ev.type = "response"
    THEN Return([ status       |-> Num(ev.response.status),
                  statusText   |-> ev.response.statusText,
                  responseTime |-> Elapsed,
                  redirected   |-> ev.response.redirected,
                  finalUrl     |-> IF ev.response.url # urlData.url
                                   THEN ev.response.url ELSE Undefined,
                  timeout      |-> FALSE ])
    ELSE Throw(ev.error)

\* checkSingleUrl reporting the measured time on the timeout path
checkSingleUrlElapsed(self, urlData, ev) ==
    IF ev.type = "response"
    THEN Return([ status       |-> Num(ev.response.status),
                  statusText   |-> ev.response.statusText,
                  responseTime |-> Elapsed,
                  redirected   |-> ev.response.redirected,
                  finalUrl     |-> IF ev.response.url # urlData.url
                                   THEN ev.response.url ELSE Undefined,
                  timeout      |-> FALSE ])
    ELSE IF ev.error.name = "AbortError"
    THEN Return([ status       |-> Str("TIMEOUT"),
                  statusText   |-> TimeoutText(self.timeout),
                  timeout      |-> TRUE,
                  error        |-> "Request timeout",
                  responseTime |-> Elapsed ])
    ELSE Return([ status       |-> Str("ERROR"),
                  statusText   |-> ev.error.message,
                  timeout      |-> FALSE,
                  error        |-> IF ev.error.code # Undefined
                                   THEN ev.error.code ELSE ev.error.message,
                  responseTime |-> self.timeout ])

\* checkSingleUrl with `error: error.message` on the failure path
checkSingleUrlMessageOnly(self, urlData, ev) ==
    IF ev.type = "response"
    THEN Return([ status       |-> Num(ev.response.status),
                  statusText   |-> ev.response.statusText,
                  responseTime |-> Elapsed,
                  redirected   |-> ev.response.redirected,
                  finalUrl     |-> IF ev.response.url # urlData.url
                                   THEN ev.response.url ELSE Undefined,
                  timeout      |-> FALSE ])
    ELSE IF ev.error.name = "AbortError"
    THEN Return([ status       |-> Str("TIMEOUT"),
                  statusText   |-> TimeoutText(self.timeout),
                  timeout      |-> TRUE,
                  error        |-> "Request timeout",
                  responseTime |-> self.timeout ])
    ELSE Return([ status       |-> Str("ERROR"),
                  statusText   |-> ev.error.message,
                  timeout      |-> FALSE,
                  error        |-> ev.error.message,
                  responseTime |-> self.timeout ])

\* checkSingleUrl with the comparison of finalUrl inverted
checkSingleUrlSameUrl(self, urlData, ev) ==
    IF ev.type = "response"
    THEN Return([ status       |-> Num(ev.response.status),
                  statusText   |-> ev.response.statusText,
                  responseTime |-> Elapsed,
                  redirected   |-> ev.response.redirected,
                  finalUrl     |-> IF ev.response.url = urlData.url
                                   THEN ev.response.url ELSE Undefined,
                  timeout      |-> FALSE ])
    ELSE IF ev.error.name = "AbortError"
    THEN Return([ status       |-> Str("TIMEOUT"),
                  statusText   |-> TimeoutText(self.timeout),
                  timeout      |-> TRUE,
                  error        |-> "Request timeout",
                  responseTime |-> self.timeout ])
    ELSE Return([ status       |-> Str("ERROR"),
                  statusText   |-> ev.error.message,
                  timeout      |-> FALSE,
                  error        |-> IF ev.error.code # Undefined
                                   THEN ev.error.code ELSE ev.error.message,
                  responseTime |-> self.timeout ])

\* async checkSingleUrl(urlData), given what the awaited fetch did: the
\* completion (return or throw) of the call.
checkSingleUrl(self, urlData, ev) ==
    IF ev.type = "response"
    THEN Return([ status       |-> Num(ev.response.status),
                  statusText   |-> ev.response.statusText,
                  responseTime |-> Elapsed,
                  redirected   |-> ev.response.redirected,
                  finalUrl     |-> IF ev.response.url # urlData.url
                                   THEN ev.response.url ELSE Undefined,
                  timeout      |-> FALSE ])
    ELSE IF ev.error.name = "AbortError"
    THEN Return([ status       |-> Str("TIMEOUT"),
                  statusText   |-> TimeoutText(self.timeout),
                  timeout      |-> TRUE,
                  error        |-> "Request timeout",
                  responseTime |-> self.timeout ])
    ELSE Return([ status       |-> Str("ERROR"),
                  statusText   |-> ev.error.message,
                  timeout      |-> FALSE,
                  error        |-> IF ev.error.code # Undefined
                                   THEN ev.error.code ELSE ev.error.message,
                  responseTime |-> self.timeout ])

\* The state of the promise of checkSingleUrlWithRetry(urlData, attempt)
Fetching(attempt) == [st |-> "fetching", attempt |-> attempt]
Sleeping(attempt, ms) == [st |-> "sleeping", attempt |-> attempt, ms |-> ms]
Fulfilled(value) == [st |-> "fulfilled", value |-> value]
Rejected(reason) == [st |-> "rejected", reason |-> reason]

\* checkSingleUrlWithRetry rethrowing the error it does not retry
checkSingleUrlWithRetryRethrows(self, urlData, attempt, completion) ==
    IF completion.kind = "return"
    THEN Fulfilled(completion.value)
    ELSE IF attempt < self.maxRetries
            /\ ( completion.error.name = "TimeoutError"
                 \/ completion.error.code = "ECONNRESET" )
    THEN Sleeping(attempt, RetryDelayUnit * attempt)
    ELSE Rejected(completion.error)

\* async checkSingleUrlWithRetry(urlData, attempt), from the completion of
\* its `await this.checkSingleUrl(urlData)` on
checkSingleUrlWithRetry(self, urlData, attempt, completion) ==
    IF completion.kind = "return"
    THEN Fulfilled(completion.value)
    ELSE IF attempt < self.maxRetries
            /\ ( completion.error.name = "TimeoutError"
                 \/ completion.error.code = "ECONNRESET" )
    THEN Sleeping(attempt, RetryDelayUnit * attempt)
    ELSE Fulfilled([ status       |-> Str("TIMEOUT"),
                     statusText   |-> completion.error.message,
                     timeout      |-> TRUE,
                     error        |-> completion.error.message,
                     responseTime |-> self.timeout ])

Min(a, b) == IF a < b THEN a ELSE b

\* array.slice(from, to) with 0-based from (inclusive) and to (exclusive); a
\* negative index counts from the end of the array
Slice(array, from, to) ==
    LET Index(x) == IF x < 0 THEN (IF Len(array) + x < 0 THEN 0 ELSE Len(array) + x)
                    ELSE Min(x, Len(array))
    IN  SubSeq(array, Index(from) + 1, Index(to))

RECURSIVE ChunkLoop(_, _, _, _)
ChunkLoop(array, chunkSize, i, acc) ==
    IF i < Len(array)
    THEN ChunkLoop(array, chunkSize, i + chunkSize,
                   Append(acc, Slice(array, i, i + chunkSize)))
    ELSE acc

RECURSIVE ChunkLoopNoEnd(_, _, _, _)
ChunkLoopNoEnd(array, chunkSize, i, acc) ==
    IF i < Len(array)
    THEN ChunkLoopNoEnd(array, chunkSize, i + chunkSize,
                        Append(acc, Slice(array, i, Len(array))))
    ELSE acc

\* chunkArray with array.slice(i): every chunk runs to the end of the array
chunkArrayNoEnd(array, chunkSize) == ChunkLoopNoEnd(array, chunkSize, 0, <<>>)

RECURSIVE ChunkLoopInclusive(_, _, _, _)
ChunkLoopInclusive(array, chunkSize, i, acc) ==
    IF i <= Len(array)
    THEN ChunkLoopInclusive(array, chunkSize, i + chunkSize,
                            Append(acc, Slice(array, i, i + chunkSize)))
    ELSE acc

\* chunkArray looping while i <= array.length: a trailing empty chunk when
\* chunkSize divides the length
chunkArrayInclusive(array, chunkSize) == ChunkLoopInclusive(array, chunkSize, 0, <<>>)

\* chunkArray(array, chunkSize)
chunkArray(array, chunkSize) == ChunkLoop(array, chunkSize, 0, <<>>)

\* { url: urlData.url, source: urlData.source, ...fields }: the entry keeps
\* only two fields of the record
SpreadUrlOnly(urlData, fields) ==
    fields @@ [url |-> urlData.url, source |-> urlData.source]

\* { ...urlData, ...fields } : the fields of the second override the first
Spread(urlData, fields) == fields @@ urlData

\* BucketOf with `status > 200` as the lower limit of the working range
BucketOfExclusive(result) ==
    IF result.st = "fulfilled"
    THEN IF result.value.timeout THEN "timeouts"
         ELSE IF IsNum(result.value.status) /\ result.value.status.num > 200
                 /\ result.value.status.num < 300 THEN "working"
         ELSE IF InRange(result.value.status, 300, 400) THEN "warnings"
         ELSE "errors"
    ELSE "errors"

\* BucketOf testing the status ranges before the timeout flag
BucketOfStatusFirst(result) ==
    IF result.st = "fulfilled"
    THEN IF InRange(result.value.status, 200, 300) THEN "working"
         ELSE IF InRange(result.value.status, 300, 400) THEN "warnings"
         ELSE IF result.value.timeout THEN "timeouts"
         ELSE "errors"
    ELSE "errors"

\* BucketOf without the else of `result.status === 'fulfilled'`: the record
\* of a rejected promise is pushed nowhere
BucketOfDropsRejected(result) ==
    IF result.st = "fulfilled"
    THEN IF result.value.timeout THEN "timeouts"
         ELSE IF InRange(result.value.status, 200, 300) THEN "working"
         ELSE IF InRange(result.value.status, 300, 400) THEN "warnings"
         ELSE "errors"
    ELSE "none"

\* BucketOf with a test of the redirected flag before the status ranges: a
\* followed redirect is a warning whatever it ended in
BucketOfRedirected(result) ==
    IF result.st = "fulfilled"
    THEN IF result.value.timeout THEN "timeouts"
         ELSE IF "redirected" \in DOMAIN result.value /\ result.value.redirected
         THEN "warnings"
         ELSE IF InRange(result.value.status, 200, 300) THEN "working"
         ELSE IF InRange(result.value.status, 300, 400) THEN "warnings"
         ELSE "errors"
    ELSE "errors"

\* The bucket the forEach callback pushes a settled promise's record to
BucketOf(result) ==
    IF result.st = "fulfilled"
    THEN IF result.value.timeout THEN "timeouts"
         ELSE IF InRange(result.value.status, 200, 300) THEN "working"
         ELSE IF InRange(result.value.status, 300, 400) THEN "warnings"
         ELSE "errors"
    ELSE "errors"

\* A string or undefined that `||` takes for false
Falsy(value) == value \in {Undefined, ""}

\* The entry the forEach callback pushes; a reason that is no object, or has
\* no message, is a reason whose message is Undefined
EntryOf(urlData, result) ==
    IF result.st = "fulfilled"
    THEN Spread(urlData, result.value)
    ELSE Spread(urlData, [ status     |-> Str("ERROR"),
                           statusText |-> "Promise rejected",
                           error      |-> IF ~Falsy(result.reason.message)
                                          THEN result.reason.message
                                          ELSE "Unknown error" ])

\* Pushes with the `else` after the timeout branch missing: a timed-out
\* record falls through to the last branch as well
PushesNoElse(b, result) ==
    \/ BucketOf(result) = b
    \/ b = "errors" /\ BucketOf(result) = "timeouts"

\* Whether the forEach callback pushes the record of a settled promise to
\* results[b]
Pushes(b, result) == BucketOf(result) = b

\* A callback attached to each promise in the place of the forEach over the
\* array of Promise.allSettled: the pushes follow the order of settlement
PushedAsSettled(b, chunk, chunkResults) ==
    LET Test(index) == Pushes(b, chunkResults[index])
        indexes == SelectSeq(order.seq, Test)
    IN  [j \in DOMAIN indexes |->
            EntryOf(chunk[indexes[j]], chunkResults[indexes[j]])]

\* What chunkResults.forEach appends to results[b]: the callback runs for
\* index 0, 1, ... in turn
Pushed(b, chunk, chunkResults) ==
    LET Test(index) == Pushes(b, chunkResults[index])
        indexes == SelectSeq([index \in DOMAIN chunk |-> index], Test)
    IN  [j \in DOMAIN indexes |->
            EntryOf(chunk[indexes[j]], chunkResults[indexes[j]])]

\* unshift in the place of push: the entries of a chunk go before those of
\* the chunks before it
ForEachUnshift(res, chunk, chunkResults) ==
    [res EXCEPT !.working  = Pushed("working", chunk, chunkResults) \o @,
                !.warnings = Pushed("warnings", chunk, chunkResults) \o @,
                !.errors   = Pushed("errors", chunk, chunkResults) \o @,
                !.timeouts = Pushed("timeouts", chunk, chunkResults) \o @]

\* chunkResults.forEach((result, index) => ...) on the results so far
ForEach(res, chunk, chunkResults) ==
    [res EXCEPT !.working  = @ \o Pushed("working", chunk, chunkResults),
                !.warnings = @ \o Pushed("warnings", chunk, chunkResults),
                !.errors   = @ \o Pushed("errors", chunk, chunkResults),
                !.timeouts = @ \o Pushed("timeouts", chunk, chunkResults)]

RECURSIVE FloorPow2(_)
FloorPow2(n) == IF n < 2 THEN 1 ELSE 2 * FloorPow2(n \div 2)

\* n < total * 0.1 in double arithmetic, for an integer n.  The double 0.1 is
\* (1 + 2^-54)/10, so the exact product is total/10 + (total/10) * 2^-54.
\* When total is not 10 * n the product is at least a tenth away from n and
\* rounding cannot reach n.  When total = 10 * n the product exceeds n by
\* n * 2^-54, and it rounds to a double above n only if that excess is more
\* than half the spacing of the doubles at n, 2^-53 * FloorPow2(n).
LessThanTenthInclusive(n, total) == total >= 10 * n

LessThanTenth(n, total) ==
    IF total > 10 * n THEN TRUE
    ELSE IF total < 10 * n THEN FALSE
    ELSE n > 2 * FloorPow2(n)

\* printReport(results): the returned verdict
printReport(res) ==
    [ success |-> Len(res.errors) = 0 /\ LessThanTenth(Len(res.timeouts), res.total) ]

----------------------------------------------------------------------------
(* Inputs *)

\* The option objects a caller constructs the checker with
OptionChoices ==
    { [concurrent |-> <<>>,  timeout |-> <<>>,     maxRetries |-> <<>>],
      [concurrent |-> <<1>>, timeout |-> <<8000>>, maxRetries |-> <<3>>],
      [concurrent |-> <<2>>, timeout |-> <<>>,     maxRetries |-> <<>>] }

\* A URL record as the line parser produces it; priority in tenths
UrlRecord(url, line) ==
    [ url        |-> url,
      lastmod    |-> "2024-01-01T00:00:00Z",
      changefreq |-> "daily",
      priority   |-> 5,
      source     |-> [line |-> line, format |-> "standard"] ]

Inputs ==
    UNION { { [i \in 1..n |-> UrlRecord(f[i], i)] : f \in [1..n -> Urls] }
            : n \in 0..MaxUrls }

NoResults == <<>>
\* report holds at most one value: what printReport returned
NoReport == <<>>

\* The state of a run not yet started
Idle ==
    /\ pc = "idle"
    /\ previous = <<>>
    /\ results = NoResults
    /\ chunks = <<>>
    /\ chunkIdx = 0
    /\ promises = <<>>
    /\ processed = 0
    /\ probes = [l \in 1..Len(urls) |-> <<>>]
    /\ calls = [l \in 1..Len(urls) |-> <<>>]
    /\ delays = [l \in 1..Len(urls) |-> <<>>]
    /\ timers = {}
    /\ pauses = <<>>
    /\ markers = <<>>
    /\ report = NoReport

\* The order of settlement is not kept, or kept and empty
Unobserved == [kept |-> FALSE, seq |-> <<>>]
Observed == [kept |-> TRUE, seq |-> <<>>]

\* The run is the only invocation of checkUrls on the checker
NoOverlap ==
    /\ heap = <<>>
    /\ runs = <<>>

\* The command line is not run: the checker is used as a library
NoCli ==
    /\ argv = <<>>
    /\ exitCode = <<>>

Init ==
    /\ options \in OptionChoices
    /\ checker = URLChecker(options)
    /\ transport = AnyTransport
    /\ NoOverlap
    /\ order = Unobserved
    /\ urls \in Inputs
    /\ Idle
    /\ NoCli

----------------------------------------------------------------------------
(* Steps of a run *)

Line(urlData) == urlData.source.line

\* The transport's log when a probe of each record of chunk starts
LogStart(log, chunk) ==
    [l \in DOMAIN log |->
        IF \E k \in DOMAIN chunk : Line(chunk[k]) = l
        THEN Append(log[l], InFlight) ELSE log[l]]

\* The transport's log when the probe in flight for line l ends with ev
LogEnd(log, l, ev) ==
    [log EXCEPT ![l] = [@ EXCEPT ![Len(@)] = ev]]

\* timeoutId = setTimeout(() => controller.abort(), this.timeout) of the
\* attempt-th call of checkSingleUrl for the record of a line
Timer(line, attempt) == [line |-> line, attempt |-> attempt]

\* A timer whose callback has run is no longer pending
Fired(pending, timer, ev) ==
    IF ev = Failed(AbortError) THEN pending \ {timer} ELSE pending

\* checkSingleUrl without the clearTimeout of its catch
ClearedOnResponse(pending, timer, ev) ==
    IF ev.type = "response" THEN pending \ {timer} ELSE pending

\* clearTimeout(timeoutId), after the await of fetch and in the catch
Cleared(pending, timer, ev) == pending \ {timer}

\* urls.map in the place of chunk.map: the probes of every record of the
\* input start with the first chunk
LaunchChunkAll(chunk) ==
    /\ promises' = [k \in DOMAIN chunk |-> Fetching(1)]
    /\ probes' = LogStart(probes, urls)
    /\ order' = [order EXCEPT !.seq = <<>>]
    /\ timers' = timers \cup { Timer(Line(urls[l]), 1) : l \in DOMAIN urls }

\* chunk.map(urlData => this.checkSingleUrlWithRetry(urlData)): every call
\* runs to the await of its fetch
LaunchChunk(chunk) ==
    /\ promises' = [k \in DOMAIN chunk |-> Fetching(1)]
    /\ probes' = LogStart(probes, chunk)
    /\ order' = [order EXCEPT !.seq = <<>>]
    /\ timers' = timers \cup { Timer(Line(chunk[k]), 1) : k \in DOMAIN chunk }

\* The results object of the caller's previous run handed on to the next
KeptResults(total) ==
    IF results = NoResults
    THEN [ working |-> <<>>, errors |-> <<>>, warnings |-> <<>>,
           timeouts |-> <<>>, total |-> total ]
    ELSE [results EXCEPT !.total = total]

\* const results = { working: [], errors: [], warnings: [], timeouts: [], total }
NewResults(total) ==
    [ working |-> <<>>, errors |-> <<>>, warnings |-> <<>>,
      timeouts |-> <<>>, total |-> total ]

\* Whether the loop of chunkArray(array, chunkSize) never ends: i starts at 0
\* below array.length and `i += chunkSize` does not raise it
Spins(array, chunkSize) == chunkSize < 1 /\ array # <<>>

\* The body of checkUrls(urls) on the instance self, to its first await, to
\* its return when there is no chunk, or into the loop of chunkArray when
\* that loop does not end
Start(self) ==
    /\ results' = NewResults(Len(urls))
    /\ processed' = 0
    /\ pauses' = <<>>
    /\ markers' = <<>>
    /\ IF Spins(urls, self.concurrent)
       THEN /\ pc' = "chunking"
            /\ chunks' = <<>>
            /\ chunkIdx' = 0
            /\ promises' = <<>>
            /\ order' = [order EXCEPT !.seq = <<>>]
            /\ UNCHANGED <<probes, timers>>
       ELSE /\ chunks' = chunkArray(urls, self.concurrent)
            /\ IF chunks' = <<>>
               THEN /\ pc' = "done"
                    /\ chunkIdx' = 0
                    /\ promises' = <<>>
                    /\ order' = [order EXCEPT !.seq = <<>>]
                    /\ UNCHANGED <<probes, timers>>
               ELSE /\ pc' = "await"
                    /\ chunkIdx' = 1
                    /\ LaunchChunk(chunks'[1])
    /\ UNCHANGED <<transport, urls, calls, delays, report, heap, runs, argv, exitCode>>

\* checkUrls(urls) is called
CheckUrls ==
    /\ pc = "idle"
    /\ Start(checker)
    /\ UNCHANGED <<options, checker, previous>>

\* The bucket counts of a ResultSet
Counts(res) ==
    [ working |-> Len(res.working), errors |-> Len(res.errors),
      warnings |-> Len(res.warnings), timeouts |-> Len(res.timeouts),
      total |-> res.total ]

\* The caller, holding the results of a completed run, calls checkUrls(urls)
\* again with the same input: on the same instance, or on a new one built
\* from any options
CheckUrlsAgain ==
    /\ pc = "done"
    /\ previous = <<>>
    /\ previous' = <<Counts(results)>>
    /\ \/ UNCHANGED <<options, checker>>
       \/ /\ options' \in OptionChoices
          /\ checker' = URLChecker(options')
    /\ Start(checker')

Settled(p) == p.st \in {"fulfilled", "rejected"}

\* The completion order of the chunk once the k-th promise has become next
Completed(k, next) ==
    IF order.kept /\ Settled(next) THEN [order EXCEPT !.seq = Append(@, k)] ELSE order

\* The call of checkSingleUrl for the k-th record of the chunk completes,
\* its fetch having ended with ev: checkSingleUrlWithRetry continues after
\* its await
Continue(k, ev, completion) ==
    LET urlData    == chunks[chunkIdx][k]
        next       == checkSingleUrlWithRetry(checker, urlData, promises[k].attempt,
                                              completion)
    IN  /\ promises' = [promises EXCEPT ![k] = next]
        /\ probes' = LogEnd(probes, Line(urlData), ev)
        /\ calls' = [calls EXCEPT ![Line(urlData)] = Append(@, completion)]
        /\ delays' = IF next.st = "sleeping"
                     THEN [delays EXCEPT ![Line(urlData)] = Append(@, next.ms)]
                     ELSE delays
        /\ order' = Completed(k, next)
        /\ LET timer == Timer(Line(urlData), promises[k].attempt)
           IN  timers' = Cleared(Fired(timers, timer, ev), timer, ev)
        /\ UNCHANGED <<fixed, pc, results, chunks, chunkIdx, processed, pauses,
                       markers, report>>

\* The fetch of the k-th record of the chunk ends with ev and checkSingleUrl
\* completes
Settle(k, ev) == Continue(k, ev, checkSingleUrl(checker, chunks[chunkIdx][k], ev))

\* fetch resolves with a response
FetchResponds(k) ==
    /\ pc = "await"
    /\ k \in DOMAIN promises
    /\ promises[k].st = "fetching"
    /\ \E response \in Responses(chunks[chunkIdx][k].url) :
          /\ Responded(response) \in transport[chunks[chunkIdx][k].url]
          /\ Settle(k, Responded(response))

\* fetch rejects with a failure of its own
FetchFails(k) ==
    /\ pc = "await"
    /\ k \in DOMAIN promises
    /\ promises[k].st = "fetching"
    /\ \E error \in TransportErrors(chunks[chunkIdx][k].url) :
          /\ Failed(error) \in transport[chunks[chunkIdx][k].url]
          /\ Settle(k, Failed(error))

\* TimerFires without the timer of checkSingleUrl: only the sleep before a
\* retry ends
TimerFiresSleepOnly(k) ==
    /\ pc = "await"
    /\ k \in DOMAIN promises
    /\ promises[k].st = "sleeping"
    /\ promises' = [promises EXCEPT ![k] = Fetching(@.attempt + 1)]
    /\ probes' = LogStart(probes, <<chunks[chunkIdx][k]>>)
    /\ timers' = timers \cup {Timer(Line(chunks[chunkIdx][k]), promises[k].attempt + 1)}
    /\ UNCHANGED <<fixed, pc, results, chunks, chunkIdx, processed,
                   calls, delays, order, pauses, markers, report>>

\* A setTimeout callback of the k-th record runs: the timeout of its fetch in
\* flight (controller.abort(), and fetch rejects with the AbortError), the
\* end of the sleep before its next attempt, or the timeout of a call that
\* has completed (controller.abort() on a fetch that is over does nothing)
TimerFires(k) ==
    /\ pc = "await"
    /\ k \in DOMAIN promises
    /\ IF promises[k].st = "fetching"
       THEN /\ Timer(Line(chunks[chunkIdx][k]), promises[k].attempt) \in timers
            /\ Failed(AbortError) \in transport[chunks[chunkIdx][k].url]
            /\ Settle(k, Failed(AbortError))
       ELSE IF promises[k].st = "sleeping"
       THEN /\ promises' = [promises EXCEPT ![k] = Fetching(@.attempt + 1)]
            /\ probes' = LogStart(probes, <<chunks[chunkIdx][k]>>)
            /\ timers' = timers \cup {Timer(Line(chunks[chunkIdx][k]),
                                            promises[k].attempt + 1)}
            /\ UNCHANGED <<fixed, pc, results, chunks, chunkIdx, processed,
                           calls, delays, order, pauses, markers, report>>
       ELSE /\ \E timer \in timers :
                  /\ timer.line = Line(chunks[chunkIdx][k])
                  /\ timers' = timers \ {timer}
            /\ UNCHANGED <<fixed, pc, results, chunks, chunkIdx, promises, processed,
                           probes, calls, delays, order, pauses, markers, report>>

\* The callback run on each promise as it settles, in the place of the
\* forEach after Promise.allSettled
ChunkSettledEach ==
    /\ pc = "await"
    /\ \E k \in DOMAIN promises :
          /\ Settled(promises[k])
          /\ results' = ForEach(results, <<chunks[chunkIdx][k]>>, <<promises[k]>>)
    /\ processed' = processed + 1
    /\ UNCHANGED <<fixed, pc, chunks, chunkIdx, promises, probes, calls, delays,
                   order, timers, pauses, markers, report>>

\* The test without its `- 1`: a pause follows the last chunk as well
PauseFollowsLast == chunkIdx - 1 < Len(chunks)

\* if (chunks.indexOf(chunk) < chunks.length - 1): the chunks are distinct
\* arrays, so indexOf gives the position of the chunk the loop is at
PauseFollows == chunkIdx - 1 < Len(chunks) - 1

\* The marker written when processed reaches p of total
Marker(p, total) == [processed |-> p, total |-> total]

\* The test made once for the chunk, after its forEach
MarkersPerChunk(from, n, total) ==
    IF n > 0 /\ (from + n) % ProgressStep = 0
    THEN <<Marker(from + n, total)>> ELSE <<>>

\* processed++ and if (processed % 50 === 0) in each call of the forEach
\* callback: the markers written while processed goes from `from` to
\* `from` + n
Markers(from, n, total) ==
    LET hits == { p \in (from + 1)..(from + n) : p % ProgressStep = 0 }
    IN  [i \in 1..Cardinality(hits) |->
            Marker(CHOOSE p \in hits : Cardinality({ q \in hits : q < p }) = i - 1,
                   total)]

\* Object.assign(urlData, checkResult) in the place of the spread into a
\* new object
WrittenAssign(urlData, result) == EntryOf(urlData, result)

\* What the forEach callback leaves of the record chunk[index]: it reads it
\* to build { ...urlData, ...checkResult } and assigns to none of its fields
Written(urlData, result) == urlData

\* The caller's array after the forEach over chunk: chunkArray copies the
\* array with slice and not its records, so chunk[index] is the caller's
\* record
AfterForEach(input, chunk, chunkResults) ==
    [i \in DOMAIN input |->
        IF \E k \in DOMAIN chunk : Line(chunk[k]) = Line(input[i])
        THEN LET k == CHOOSE k \in DOMAIN chunk : Line(chunk[k]) = Line(input[i])
             IN  Written(input[i], chunkResults[k])
        ELSE input[i]]

\* Promise.allSettled(promises) resolves: the forEach over chunkResults, then
\* the pause before the next chunk or the return of the results
ChunkSettled ==
    /\ pc = "await"
    /\ \A k \in DOMAIN promises : Settled(promises[k])
    /\ results' = ForEach(results, chunks[chunkIdx], promises)
    /\ urls' = AfterForEach(urls, chunks[chunkIdx], promises)
    /\ processed' = processed + Len(promises)
    /\ markers' = markers \o Markers(processed, Len(promises), Len(urls))
    /\ IF PauseFollows
       THEN /\ pauses' = Append(pauses, [after |-> chunkIdx, ms |-> ChunkPause])
            /\ pc' = "pause"
       ELSE /\ pc' = "done"
            /\ UNCHANGED pauses
    /\ UNCHANGED <<caller, chunks, chunkIdx, promises, probes, calls, delays,
                   order, timers, report>>

\* this.sleep(100) resolves: the loop goes to the next chunk
PauseDone ==
    /\ pc = "pause"
    /\ chunkIdx' = chunkIdx + 1
    /\ LaunchChunk(chunks[chunkIdx + 1])
    /\ pc' = "await"
    /\ UNCHANGED <<fixed, results, chunks, processed, calls, delays, pauses,
                   markers, report>>

\* The caller passes the returned results to printReport
PrintReport ==
    /\ pc = "done"
    /\ report = NoReport
    /\ report' = <<printReport(results)>>
    /\ UNCHANGED <<fixed, pc, results, chunks, chunkIdx, promises, processed,
                   probes, calls, delays, order, timers, pauses, markers>>

Next ==
    \/ CheckUrls
    \/ \E k \in DOMAIN promises : FetchResponds(k)
    \/ \E k \in DOMAIN promises : FetchFails(k)
    \/ \E k \in DOMAIN promises : TimerFires(k)
    \/ ChunkSettled
    \/ PauseDone
    \/ PrintReport

Spec == Init /\ [][Next]_vars

----------------------------------------------------------------------------
(* printReport on the results of completed runs of up to MaxReportTotal     *)
(* records: the first `lost` records of the input never responded, the next *)
(* `broken` ones answered 500 and the others answered 200.                  *)

MaxReportTotal == 100
MaxReportTimeouts == 11
MaxReportErrors == 1

ReportInput(total) == [i \in 1..total |-> UrlRecord("http://a/", i)]

ReportEvent(l, lost, broken) ==
    IF l <= lost THEN Failed(AbortError)
    ELSE LET status == IF l <= lost + broken THEN 500 ELSE 200
         IN  Responded([ status |-> status, statusText |-> StatusText(status),
                         redirected |-> FALSE, url |-> "http://a/" ])

ReportPromise(self, urlData, lost, broken) ==
    checkSingleUrlWithRetry(self, urlData, 1,
        checkSingleUrl(self, urlData, ReportEvent(Line(urlData), lost, broken)))

InitReport ==
    \E total \in 0..MaxReportTotal, lost \in 0..MaxReportTimeouts,
       broken \in 0..MaxReportErrors :
        /\ lost + broken <= total
        /\ options = [concurrent |-> <<>>, timeout |-> <<>>, maxRetries |-> <<>>]
        /\ checker = URLChecker(options)
        /\ transport = AnyTransport
        /\ NoOverlap
        /\ order = Unobserved
        /\ urls = ReportInput(total)
        /\ pc = "done"
        /\ chunks = chunkArray(urls, checker.concurrent)
        /\ chunkIdx = Len(chunks)
        /\ promises = IF chunks = <<>> THEN <<>>
                      ELSE [k \in DOMAIN chunks[chunkIdx] |->
                              ReportPromise(checker, chunks[chunkIdx][k], lost, broken)]
        /\ results = ForEach([ working |-> <<>>, errors |-> <<>>, warnings |-> <<>>,
                               timeouts |-> <<>>, total |-> Len(urls) ],
                             urls,
                             [l \in 1..total |-> ReportPromise(checker, urls[l], lost, broken)])
        /\ processed = total
        /\ probes = [l \in 1..total |-> <<ReportEvent(l, lost, broken)>>]
        /\ calls = [l \in 1..total |->
                      <<checkSingleUrl(checker, urls[l], ReportEvent(l, lost, broken))>>]
        /\ delays = [l \in 1..total |-> <<>>]
        /\ timers = {}
        /\ pauses = [i \in 1..(Len(chunks) - 1) |-> [after |-> i, ms |-> ChunkPause]]
        /\ markers = Markers(0, total, total)
        /\ report = NoReport
        /\ previous = <<>>
        /\ NoCli

NextReport == PrintReport

SpecReport == InitReport /\ [][NextReport]_vars

----------------------------------------------------------------------------
(* Runs over longer inputs, of up to MaxWideUrls records and chunks of up   *)
(* to MaxWideConcurrent, on a network where a page answers 200 or not at    *)
(* all.                                                                     *)

MaxWideUrls == 7
MaxWideConcurrent == 4

Ok(url) ==
    Responded([ status |-> 200, statusText |-> StatusText(200),
                redirected |-> FALSE, url |-> Normalize(url) ])

QuietTransport ==
    [url \in Urls |->
        IF url \in ValidUrls THEN {Ok(url), Failed(AbortError)}
        ELSE { Failed(error) : error \in TransportErrors(url) }]

WideUrl(i) ==
    CASE i % 3 = 1 -> "http://a/"
      [] i % 3 = 2 -> "not-a-url"
      [] OTHER     -> "http://a"

WideInput(n) == [i \in 1..n |-> UrlRecord(WideUrl(i), i)]

WideRun ==
    /\ \E c \in 1..MaxWideConcurrent :
          options = [concurrent |-> <<c>>, timeout |-> <<>>, maxRetries |-> <<>>]
    /\ checker = URLChecker(options)
    /\ transport = QuietTransport
    /\ NoOverlap
    /\ \E n \in 0..MaxWideUrls : urls = WideInput(n)
    /\ Idle
    /\ NoCli

InitWide ==
    /\ WideRun
    /\ order = Unobserved

SpecWide == InitWide /\ [][Next]_vars

\* The same runs, with the order in which the promises of a chunk settle kept
InitOrder ==
    /\ WideRun
    /\ order = Observed

SpecOrder == InitOrder /\ [][Next]_vars

----------------------------------------------------------------------------
(* checkSingleUrlWithRetry around a check operation that can throw: runs   *)
(* of up to MaxRetryUrls records in which a call of checkSingleUrl is the   *)
(* method of the class or a replacement that lets the failure escape.       *)

MaxRetryUrls == 2

\* What the replacement throws: a timeout by name, a connection reset by
\* code, and a failure that is neither
ThrownErrors ==
    { [name |-> "TimeoutError", code |-> Undefined, message |-> "The operation timed out"],
      [name |-> "FetchError", code |-> "ECONNRESET", message |-> "socket hang up"],
      [name |-> "Error", code |-> Undefined, message |-> "boom"] }

\* The call of checkSingleUrl for the k-th record throws
CheckThrows(k) ==
    /\ pc = "await"
    /\ k \in DOMAIN promises
    /\ promises[k].st = "fetching"
    /\ \E error \in ThrownErrors : Continue(k, Failed(error), Throw(error))

InitRetry ==
    /\ options \in OptionChoices
    /\ checker = URLChecker(options)
    /\ transport = QuietTransport
    /\ NoOverlap
    /\ order = Unobserved
    /\ \E n \in 1..MaxRetryUrls : urls = WideInput(n)
    /\ Idle
    /\ NoCli

NextRetry ==
    \/ Next
    \/ \E k \in DOMAIN promises : CheckThrows(k)

SpecRetry == InitRetry /\ [][NextRetry]_vars

\* fetch of a malformed URL rejects without waiting for the network
RejectsMalformed(k) ==
    /\ FetchFails(k)
    /\ chunks[chunkIdx][k].url \in MalformedUrls

\* What runs without the network: the timers (the timeout of a fetch, the
\* sleep before a retry, the pause between chunks), the rejection of a
\* malformed URL and the continuation of checkUrls after allSettled.
\* Nothing makes the network answer.
Fairness ==
    /\ \A k \in 1..MaxRetryUrls : WF_vars(TimerFires(k))
    /\ \A k \in 1..MaxRetryUrls : WF_vars(RejectsMalformed(k))
    /\ WF_vars(ChunkSettled)
    /\ WF_vars(PauseDone)

SpecFair == SpecRetry /\ Fairness

----------------------------------------------------------------------------
(* Runs of up to MaxRejectUrls records in which the promise of a record     *)
(* can reject, as when checkSingleUrlWithRetry is replaced by a function    *)
(* that fails.                                                              *)

MaxRejectUrls == 3

\* What the promise rejects with: an Error, an Error with an empty message,
\* a value without a message
Reasons ==
    { [message |-> "pipeline failed"], [message |-> ""], [message |-> Undefined] }

Reject(reason) == [kind |-> "reject", reason |-> reason]

\* The promise of the k-th record of the chunk rejects
PipelineRejects(k) ==
    /\ pc = "await"
    /\ k \in DOMAIN promises
    /\ promises[k].st = "fetching"
    /\ \E reason \in Reasons :
          /\ promises' = [promises EXCEPT ![k] = Rejected(reason)]
          /\ calls' = [calls EXCEPT ![Line(chunks[chunkIdx][k])] = Append(@, Reject(reason))]
          /\ order' = Completed(k, Rejected(reason))
          /\ timers' = timers \ {Timer(Line(chunks[chunkIdx][k]), promises[k].attempt)}
    /\ UNCHANGED <<fixed, pc, results, chunks, chunkIdx, processed, probes,
                   delays, pauses, markers, report>>

InitReject ==
    /\ options \in OptionChoices
    /\ checker = URLChecker(options)
    /\ transport = QuietTransport
    /\ NoOverlap
    /\ order = Unobserved
    /\ \E n \in 1..MaxRejectUrls : urls = WideInput(n)
    /\ Idle
    /\ NoCli

NextReject ==
    \/ Next
    \/ \E k \in DOMAIN promises : PipelineRejects(k)

SpecReject == InitReject /\ [][NextReject]_vars

----------------------------------------------------------------------------
(* Checkers constructed with each option absent or supplied, a supplied     *)
(* maxRetries of 0 included.                                                *)

SuppliedOptions ==
    { [concurrent |-> c, timeout |-> t, maxRetries |-> r] :
        c \in {<<>>, <<1>>}, t \in {<<>>, <<8000>>}, r \in {<<>>, <<0>>, <<1>>} }

InitOptions ==
    /\ options \in SuppliedOptions
    /\ checker = URLChecker(options)
    /\ transport = QuietTransport
    /\ NoOverlap
    /\ order = Unobserved
    /\ \E n \in 1..MaxRetryUrls : urls = WideInput(n)
    /\ Idle
    /\ NoCli

SpecOptions == InitOptions /\ [][NextRetry]_vars

----------------------------------------------------------------------------
(* Checkers constructed with any integer for `concurrent`, zero and         *)
(* negative values included, on inputs of up to MaxChunkingUrls records.    *)
(* The iterations of a loop of chunkArray that does not end are counted up  *)
(* to MaxSpins.                                                             *)

MaxChunkingUrls == 3
MaxSpins == 4

ConcurrentOptions ==
    { [concurrent |-> c, timeout |-> <<>>, maxRetries |-> <<>>] :
        c \in {<<>>} \cup { <<n>> : n \in -2..2 } }

\* One more iteration of for (let i = 0; i < array.length; i += chunkSize)
\* in a loop that does not end: chunks.push(array.slice(i, i + chunkSize))
ChunkArraySpins ==
    /\ pc = "chunking"
    /\ Len(chunks) < MaxSpins
    /\ LET i == Len(chunks) * checker.concurrent
       IN  /\ i < Len(urls)
           /\ chunks' = Append(chunks, Slice(urls, i, i + checker.concurrent))
    /\ UNCHANGED <<fixed, pc, results, chunkIdx, promises, processed, probes, calls,
                   delays, order, timers, pauses, markers, report>>

InitChunking ==
    /\ options \in ConcurrentOptions
    /\ checker = URLChecker(options)
    /\ transport = QuietTransport
    /\ NoOverlap
    /\ order = Unobserved
    /\ \E n \in 0..MaxChunkingUrls : urls = WideInput(n)
    /\ Idle
    /\ NoCli

NextChunking ==
    \/ Next
    \/ ChunkArraySpins

SpecChunking == InitChunking /\ [][NextChunking]_vars

----------------------------------------------------------------------------
(* The command line: `node src/index.js <command>` on a file of URLs.       *)

\* The commands SitemapCLI.run registers
CliCommands == {"generate", "validate", "parse", "init"}

\* The command lines of the readme and of the scripts of package.json
CliArgs == {<<>>, <<"generate">>, <<"validate">>, <<"parse">>, <<"init">>, <<"check">>}

\* Whether the handler of a registered command can only throw: generateSitemap
\* throws when the file has no valid URL
MustThrow(command) == command = "generate" /\ urls = <<>>

\* SitemapCLI.run(), to the end of the process. Without argument it runs
\* generateSitemap; program.parse() runs the handler of a registered command,
\* which ends the process with 1 when it throws and lets it end with 0
\* otherwise (whether it throws is decided by the files, outside the
\* model); for any other command commander reports `unknown command` and
\* ends the process with 1. No handler constructs a URLChecker.
RunCli ==
    /\ exitCode = <<>>
    /\ LET command == IF argv = <<>> THEN "generate" ELSE argv[1]
       IN  IF command \in CliCommands
           THEN \/ exitCode' = <<1>>
                \/ ~MustThrow(command) /\ exitCode' = <<0>>
           ELSE exitCode' = <<1>>
    /\ UNCHANGED <<options, checker, transport, urls, pc, results, chunks, chunkIdx,
                   promises, processed, probes, calls, delays, order, timers,
                   pauses, markers, report, previous, heap, runs, argv>>

InitCli ==
    /\ options \in OptionChoices
    /\ checker = URLChecker(options)
    /\ transport = QuietTransport
    /\ NoOverlap
    /\ order = Unobserved
    /\ urls \in Inputs
    /\ Idle
    /\ argv \in CliArgs
    /\ exitCode = <<>>

NextCli == RunCli

SpecCli == InitCli /\ [][NextCli]_vars

----------------------------------------------------------------------------
(* The forEach of checkUrls on any settled chunk: a chunk of up to          *)
(* MaxClassifyUrls promises, each fulfilled with any status and any timeout *)
(* flag, or rejected.                                                       *)

MaxClassifyUrls == 2

\* Statuses at and around the limits of the ranges, the two sentinels and a
\* status that is no number
AnyStatus ==
    { Num(n) : n \in {100, 199, 200, 299, 300, 399, 400, 404, 500, 599} }
    \cup { Str("ERROR"), Str("TIMEOUT"), Str("n/a") }

AnySettled ==
    { Fulfilled([ status |-> status, statusText |-> "", timeout |-> flag,
                  responseTime |-> Elapsed ]) : status \in AnyStatus, flag \in BOOLEAN }
    \cup { Rejected(reason) : reason \in Reasons }

\* checkUrls at the resolution of Promise.allSettled for its only chunk
InitClassify ==
    /\ options = [concurrent |-> <<>>, timeout |-> <<>>, maxRetries |-> <<>>]
    /\ checker = URLChecker(options)
    /\ transport = QuietTransport
    /\ NoOverlap
    /\ order = Unobserved
    /\ \E n \in 1..MaxClassifyUrls :
          /\ urls = WideInput(n)
          /\ promises \in [1..n -> AnySettled]
    /\ timers = {}
    /\ pauses = <<>>
    /\ markers = <<>>
    /\ pc = "await"
    /\ results = NewResults(Len(urls))
    /\ chunks = chunkArray(urls, checker.concurrent)
    /\ chunkIdx = 1
    /\ processed = 0
    /\ probes = [l \in 1..Len(urls) |-> <<>>]
    /\ calls = [l \in 1..Len(urls) |-> <<>>]
    /\ delays = [l \in 1..Len(urls) |-> <<>>]
    /\ report = NoReport
    /\ previous = <<>>
    /\ NoCli

NextClassify == ChunkSettled \/ PrintReport

SpecClassify == InitClassify /\ [][NextClassify]_vars

----------------------------------------------------------------------------
(* Two runs over the same input on a static network: every fetch of a URL   *)
(* ends the same way.                                                       *)

\* How the fetches of a URL of a static network can all end
StaticEvents(url) ==
    IF url \in ValidUrls
    THEN { Ok(url),
           Responded([ status |-> 301, statusText |-> StatusText(301),
                       redirected |-> TRUE, url |-> "http://b/" ]),
           Responded([ status |-> 500, statusText |-> StatusText(500),
                       redirected |-> FALSE, url |-> Normalize(url) ]),
           Failed(AbortError) }
         \cup { Failed(error) : error \in TransportErrors(url) }
    ELSE { Failed(error) : error \in TransportErrors(url) }

StaticTransports ==
    { [url \in Urls |-> {f[url]}] : f \in { g \in [Urls -> UNION { StaticEvents(u) : u \in Urls }] :
                                              \A u \in Urls : g[u] \in StaticEvents(u) } }

InitStatic ==
    /\ options \in OptionChoices
    /\ checker = URLChecker(options)
    /\ transport \in StaticTransports
    /\ NoOverlap
    /\ order = Unobserved
    /\ urls \in Inputs
    /\ Idle
    /\ NoCli

NextStatic == Next \/ CheckUrlsAgain

SpecStatic == InitStatic /\ [][NextStatic]_vars

----------------------------------------------------------------------------
(* Runs over inputs of up to MaxProgressUrls records, on a network that    *)
(* answers every probe before its timeout: in chunks of 2 and of 3 from    *)
(* the call of checkUrls, and in one chunk of the whole input from the     *)
(* resolution of Promise.allSettled, every promise settled in input order. *)

MaxProgressUrls == 101

\* How the fetch of url ends
PromptEvent(url) ==
    IF url \in ValidUrls THEN Ok(url)
    ELSE Failed(CHOOSE error \in TransportErrors(url) : TRUE)

PromptTransport == [url \in Urls |-> {PromptEvent(url)}]

PromptCall(self, urlData) == checkSingleUrl(self, urlData, PromptEvent(urlData.url))

\* checkUrls at the resolution of Promise.allSettled for its only chunk
AtOnlyJoin ==
    /\ pc = "await"
    /\ previous = <<>>
    /\ results = NewResults(Len(urls))
    /\ chunks = chunkArray(urls, checker.concurrent)
    /\ chunkIdx = 1
    /\ promises = [k \in DOMAIN urls |->
                      checkSingleUrlWithRetry(checker, urls[k], 1,
                                              PromptCall(checker, urls[k]))]
    /\ processed = 0
    /\ probes = [l \in 1..Len(urls) |-> <<PromptEvent(urls[l].url)>>]
    /\ calls = [l \in 1..Len(urls) |-> <<PromptCall(checker, urls[l])>>]
    /\ delays = [l \in 1..Len(urls) |-> <<>>]
    /\ timers = {}
    /\ pauses = <<>>
    /\ markers = <<>>
    /\ report = NoReport

InitProgress ==
    /\ \E c \in {2, 3, MaxProgressUrls} :
          options = [concurrent |-> <<c>>, timeout |-> <<>>, maxRetries |-> <<>>]
    /\ checker = URLChecker(options)
    /\ transport = PromptTransport
    /\ NoOverlap
    /\ order = Unobserved
    /\ \E n \in 0..MaxProgressUrls : urls = WideInput(n)
    /\ IF checker.concurrent < MaxProgressUrls \/ urls = <<>>
       THEN Idle
       ELSE AtOnlyJoin
    /\ NoCli

NextProgress ==
    \/ CheckUrls
    \/ \E k \in DOMAIN promises : FetchResponds(k)
    \/ \E k \in DOMAIN promises : FetchFails(k)
    \/ ChunkSettled
    \/ PauseDone

SpecProgress == InitProgress /\ [][NextProgress]_vars

----------------------------------------------------------------------------
(* Up to MaxRuns invocations of checkUrls(urls) on one checker, one after  *)
(* the other or overlapping, over inputs of up to MaxOverlapUrls records.   *)
(* A ResultSet is an object of the heap and `results`, a local constant of  *)
(* the invocation, a reference to it.  checkSingleUrl never throws, so the  *)
(* end of a fetch settles the promise of its record.                        *)

MaxRuns == 2
MaxOverlapUrls == 2

\* An invocation not yet made
NotCalled ==
    [ pc |-> "idle", ref |-> 0, chunkIdx |-> 0, promises |-> <<>>, processed |-> 0,
      report |-> NoReport ]

\* this.results = { ... } in the place of the local constant: every
\* invocation on the checker holds the same reference
AllocateShared(objects, total) ==
    IF objects = <<>>
    THEN [ ref |-> 1, heap |-> <<NewResults(total)>> ]
    ELSE [ ref |-> 1, heap |-> [objects EXCEPT ![1] = NewResults(total)] ]

\* const results = { working: [], ... }: the object literal is a new object
\* of the heap
Allocate(objects, total) ==
    [ ref |-> Len(objects) + 1, heap |-> Append(objects, NewResults(total)) ]

\* The chunks of every invocation: const chunks = this.chunkArray(urls,
\* this.concurrent)
RunChunks == chunkArray(urls, checker.concurrent)

single == <<pc, results, chunks, chunkIdx, promises, processed, probes, calls,
            delays, order, timers, pauses, markers, report>>

\* checkUrls(urls) is called for the r-th time and runs to its first await,
\* or to its return when there is no chunk
Call(r) ==
    /\ runs[r].pc = "idle"
    /\ r > 1 => runs[r - 1].pc # "idle"
    /\ LET new == Allocate(heap, Len(urls))
       IN  /\ heap' = new.heap
           /\ runs' = [runs EXCEPT ![r] =
                         IF RunChunks = <<>>
                         THEN [NotCalled EXCEPT !.pc = "done", !.ref = new.ref]
                         ELSE [NotCalled EXCEPT
                                 !.pc = "await", !.ref = new.ref, !.chunkIdx = 1,
                                 !.promises = [k \in DOMAIN RunChunks[1] |-> Fetching(1)]]]
    /\ UNCHANGED <<options, checker, transport, urls, previous, argv, exitCode, single>>

\* The fetch of the k-th record of the chunk of invocation r ends
RunSettles(r, k) ==
    /\ runs[r].pc = "await"
    /\ k \in DOMAIN runs[r].promises
    /\ runs[r].promises[k].st = "fetching"
    /\ LET urlData == RunChunks[runs[r].chunkIdx][k]
       IN  \E ev \in transport[urlData.url] :
              runs' = [runs EXCEPT ![r].promises[k] =
                         checkSingleUrlWithRetry(checker, urlData, 1,
                                                 checkSingleUrl(checker, urlData, ev))]
    /\ UNCHANGED <<options, checker, transport, urls, previous, argv, exitCode, single,
                   heap>>

\* Promise.allSettled(promises) resolves in invocation r: its forEach, then
\* its pause or its return
RunJoin(r) ==
    /\ runs[r].pc = "await"
    /\ \A k \in DOMAIN runs[r].promises : Settled(runs[r].promises[k])
    /\ heap' = [heap EXCEPT ![runs[r].ref] =
                   ForEach(@, RunChunks[runs[r].chunkIdx], runs[r].promises)]
    /\ runs' = [runs EXCEPT
                   ![r].processed = @ + Len(runs[r].promises),
                   ![r].pc = IF runs[r].chunkIdx - 1 < Len(RunChunks) - 1
                             THEN "pause" ELSE "done"]
    /\ UNCHANGED <<options, checker, transport, urls, previous, argv, exitCode, single>>

\* this.sleep(100) resolves in invocation r
RunPauseDone(r) ==
    /\ runs[r].pc = "pause"
    /\ runs' = [runs EXCEPT
                   ![r].pc = "await",
                   ![r].chunkIdx = @ + 1,
                   ![r].promises = [k \in DOMAIN RunChunks[runs[r].chunkIdx + 1] |->
                                      Fetching(1)]]
    /\ UNCHANGED <<options, checker, transport, urls, previous, argv, exitCode, single,
                   heap>>

\* The caller passes what invocation r returned to printReport, which reads
\* the buckets (destructuring, slice, reduce, filter) and assigns nothing
RunReport(r) ==
    /\ runs[r].pc = "done"
    /\ runs[r].report = NoReport
    /\ runs' = [runs EXCEPT ![r].report = <<printReport(heap[runs[r].ref])>>]
    /\ UNCHANGED <<options, checker, transport, urls, previous, argv, exitCode, single,
                   heap>>

InitOverlap ==
    /\ options \in OptionChoices
    /\ checker = URLChecker(options)
    /\ transport = QuietTransport
    /\ \E n \in 0..MaxOverlapUrls : urls = WideInput(n)
    /\ Idle
    /\ NoCli
    /\ order = Unobserved
    /\ heap = <<>>
    /\ runs = [r \in 1..MaxRuns |-> NotCalled]

NextOverlap ==
    \/ \E r \in DOMAIN runs : Call(r)
    \/ \E r \in DOMAIN runs : \E k \in DOMAIN runs[r].promises : RunSettles(r, k)
    \/ \E r \in DOMAIN runs : RunJoin(r)
    \/ \E r \in DOMAIN runs : RunPauseDone(r)
    \/ \E r \in DOMAIN runs : RunReport(r)

SpecOverlap == InitOverlap /\ [][NextOverlap]_vars

----------------------------------------------------------------------------
(* Vocabulary of the properties *)

BucketNames == {"working", "warnings", "errors", "timeouts"}

Lines == 1..Len(urls)

\* How many entries of bucket b come from the record of input line l
Occurrences(b, l) ==
    Cardinality({ i \in DOMAIN results[b] :
                    /\ Line(results[b][i]) = l
                    /\ results[b][i].url = urls[l].url })

Classified(l) ==
    Occurrences("working", l) + Occurrences("warnings", l)
        + Occurrences("errors", l) + Occurrences("timeouts", l)

InBucketOnly(b, l) == Occurrences(b, l) = 1 /\ Classified(l) = 1

EntryFor(b, l) ==
    results[b][CHOOSE i \in DOMAIN results[b] : Line(results[b][i]) = l]

BucketTotal ==
    Len(results.working) + Len(results.warnings)
        + Len(results.errors) + Len(results.timeouts)

InFlightCount == Cardinality({ k \in DOMAIN promises : promises[k].st = "fetching" })

IsAbort(ev) == ev.type = "error" /\ ev.error.name = "AbortError"
IsReset(ev) == ev.type = "error" /\ ev.error.code = "ECONNRESET"
IsStatus(ev, status) == ev.type = "response" /\ ev.response.status = status

Probed(l) == Len(probes[l]) >= 1
LastProbe(l) == probes[l][Len(probes[l])]

\* No attempt of the record of line l got a response before the timeout
NeverResponds(l) ==
    Probed(l) /\ \A i \in DOMAIN probes[l] : IsAbort(probes[l][i])

\* Every attempt of the record of line l failed with a transient failure
OnlyTransient(l) ==
    Probed(l) /\ \A i \in DOMAIN probes[l] : IsAbort(probes[l][i]) \/ IsReset(probes[l][i])

\* An HTTP error status, or a transport failure that is neither the timeout
\* nor a connection reset (malformed URL, DNS failure)
NonTransient(ev) ==
    \/ ev.type = "response" /\ ev.response.status >= 400
    \/ ev.type = "error" /\ ~IsAbort(ev) /\ ~IsReset(ev)

----------------------------------------------------------------------------
(* Properties *)

\* C1: when checkUrls completes, the four bucket lengths add up to the number
\* of input records and to total, and every input record, by input position,
\* is in exactly one bucket exactly once.
C1_BucketsPartitionInput ==
    pc = "done" =>
        /\ BucketTotal = Len(urls)
        /\ results.total = Len(urls)
        /\ \A l \in Lines : Classified(l) = 1

C1_Witness ==
    /\ pc = "done"
    /\ Len(urls) >= 2
    /\ Len(results.timeouts) >= 1
    /\ Len(results.working) >= 1

\* C2: in every state of a run, the number of probes started and not yet
\* settled is at most the checker's concurrent limit.
C2_InFlightAtMostConcurrent == InFlightCount <= checker.concurrent

C2_Witness ==
    /\ InFlightCount = checker.concurrent
    /\ Len(urls) > checker.concurrent

\* C3: a record whose probe never responds within the timeout on any attempt
\* has been probed 1 + maxRetries times when the run completes.
C3_UnresponsiveProbedOncePlusMaxRetries ==
    pc = "done" =>
        \A l \in Lines : NeverResponds(l) => Len(probes[l]) = 1 + checker.maxRetries

\* C4: a record whose probe has not responded after all its attempts settles
\* as a fulfilled timeout outcome, never as a rejection, and ends in the
\* timeouts bucket and in no other, with every other record still classified.
C4_UnresponsiveEndsInTimeouts ==
    /\ pc = "await" =>
          \A k \in DOMAIN promises :
              LET l == Line(chunks[chunkIdx][k])
              IN  NeverResponds(l) =>
                      /\ promises[k].st = "fulfilled"
                      /\ promises[k].value.timeout
    /\ pc = "done" =>
          \A l \in Lines :
              /\ Classified(l) = 1
              /\ NeverResponds(l) => InBucketOnly("timeouts", l)

C4_Witness ==
    /\ pc = "done"
    /\ \E l, m \in Lines :
          /\ NeverResponds(l)
          /\ InBucketOnly("timeouts", l)
          /\ l < m
          /\ InBucketOnly("working", m)

\* C5: the k-th retry of a record (k = 1..maxRetries) is preceded by a wait
\* of k * 1000 ms: a record whose attempts all fail with a transient failure
\* has slept 1000, 2000, ..., maxRetries * 1000 ms when the run completes.
C5_LinearBackoffBeforeEachRetry ==
    pc = "done" =>
        \A l \in Lines :
            OnlyTransient(l) =>
                delays[l] = [k \in 1..checker.maxRetries |-> k * 1000]

\* C6: a probe that fails with ECONNRESET is retried before the final outcome
\* of its record is recorded.
C6_ConnectionResetIsRetried ==
    pc = "done" =>
        \A l \in Lines :
            (Probed(l) /\ IsReset(probes[l][1])) => Len(probes[l]) > 1

\* C7: a record whose probe yields a non-transient failure (HTTP 4xx/5xx,
\* malformed URL, DNS failure) is probed exactly once in the run and is
\* classified into errors and no other bucket.
C7_NonTransientProbedOnceIntoErrors ==
    \A l \in Lines :
        (Probed(l) /\ NonTransient(probes[l][1])) =>
            /\ Len(probes[l]) = 1
            /\ pc = "done" => InBucketOnly("errors", l)

C7_Witness ==
    /\ pc = "done"
    /\ \E l, m \in Lines :
          /\ IsStatus(probes[l][1], 500)
          /\ InBucketOnly("errors", l)
          /\ probes[m][1].type = "error"
          /\ NonTransient(probes[m][1])
          /\ InBucketOnly("errors", m)

\* C8: a record whose probe returns HTTP 200 is classified into working and
\* no other bucket, and its entry has the timeout flag false.
C8_Status200IntoWorking ==
    pc = "done" =>
        \A l \in Lines :
            IsStatus(LastProbe(l), 200) =>
                /\ InBucketOnly("working", l)
                /\ EntryFor("working", l).timeout = FALSE

C8_Witness ==
    /\ pc = "done"
    /\ \E l \in Lines :
          /\ IsStatus(LastProbe(l), 200)
          /\ InBucketOnly("working", l)
          /\ EntryFor("working", l).timeout = FALSE

\* C9: a record whose probe returns HTTP 301 from a final URL that is another
\* URL than the requested one (not merely its serialization) is classified
\* into warnings, and its entry has redirected = true and a finalUrl that is
\* set and differs from the record's url, as a string and as a URL.
C9_Status301IntoWarnings ==
    pc = "done" =>
        \A l \in Lines :
            ( /\ IsStatus(LastProbe(l), 301)
              /\ LastProbe(l).response.url # Normalize(urls[l].url) ) =>
                /\ InBucketOnly("warnings", l)
                /\ EntryFor("warnings", l).redirected = TRUE
                /\ EntryFor("warnings", l).finalUrl # Undefined
                /\ EntryFor("warnings", l).finalUrl # urls[l].url
                /\ EntryFor("warnings", l).finalUrl # Normalize(urls[l].url)

C9_Witness ==
    /\ pc = "done"
    /\ \E l \in Lines :
          /\ IsStatus(LastProbe(l), 301)
          /\ LastProbe(l).response.url # Normalize(urls[l].url)
          /\ InBucketOnly("warnings", l)
          /\ EntryFor("warnings", l).redirected = TRUE
          /\ EntryFor("warnings", l).finalUrl = LastProbe(l).response.url

ChunkOf(l) == (l - 1) \div checker.concurrent + 1

\* C12: chunks run one after the other and records are submitted in input
\* order: when a probe of a record has started, every record before it in the
\* input has been probed, and every record of an earlier chunk has no probe
\* in flight, no retry pending and is classified.
C12_ChunksStrictlySequential ==
    \A l \in Lines : \A m \in Lines :
        (l < m /\ Probed(m)) =>
            /\ Probed(l)
            /\ ChunkOf(l) < ChunkOf(m) =>
                  /\ LastProbe(l) # InFlight
                  /\ Classified(l) = 1
                  /\ chunkIdx > ChunkOf(l)

\* A chunk of two or more records, one of which answered at once and one of
\* which ran into the timeout, is behind and the next chunk is in flight
C12_Witness ==
    /\ pc = "await"
    /\ chunkIdx = 2
    /\ \E l \in Lines : \E m \in Lines : \E n \in Lines :
          /\ ChunkOf(l) = 1 /\ ChunkOf(m) = 1 /\ ChunkOf(n) = 2
          /\ IsAbort(LastProbe(l))
          /\ IsStatus(LastProbe(m), 200)
          /\ LastProbe(n) = InFlight

RECURSIVE Concat(_)
Concat(seqs) == IF seqs = <<>> THEN <<>> ELSE Head(seqs) \o Concat(Tail(seqs))

\* C19: chunkArray(urls, C) with C >= 1 cuts the input into contiguous chunks:
\* their concatenation is the input, every chunk but the last has exactly C
\* records, the last has between 1 and C, and an empty input gives no chunk.
C19_ChunkArrayPartitions ==
    (pc # "idle" /\ checker.concurrent >= 1) =>
        /\ Concat(chunks) = urls
        /\ \A i \in DOMAIN chunks :
              /\ i < Len(chunks) => Len(chunks[i]) = checker.concurrent
              /\ Len(chunks[i]) >= 1
              /\ Len(chunks[i]) <= checker.concurrent
        /\ urls = <<>> => chunks = <<>>

\* An input cut into full chunks and a shorter last one
C19_Witness ==
    /\ pc # "idle"
    /\ Len(chunks) >= 2
    /\ Len(chunks[1]) >= 2
    /\ Len(chunks[Len(chunks)]) < checker.concurrent

\* The fields every outcome of a check has
OutcomeFields == {"status", "statusText", "timeout", "responseTime"}

IsOutcome(value) ==
    /\ OutcomeFields \subseteq DOMAIN value
    /\ value.timeout \in BOOLEAN
    /\ value.status \in {Num(n) : n \in HttpStatuses} \cup {Str("TIMEOUT"), Str("ERROR")}

\* C13: checkSingleUrl never throws: whatever the fetch did (a response, the
\* abort of the timeout, a transport error, a malformed URL), the call
\* returned an outcome with a status, a status text, a timeout flag and a
\* response time.
C13_CheckSingleUrlNeverThrows ==
    \A l \in Lines : \A i \in DOMAIN calls[l] :
        /\ calls[l][i].kind = "return"
        /\ IsOutcome(calls[l][i].value)

\* A fetch rejected for a malformed URL and another ran into the timeout,
\* and both calls completed
C13_Witness ==
    \E l \in Lines : \E m \in Lines :
        /\ urls[l].url \in MalformedUrls
        /\ Len(calls[l]) = 1 /\ LastProbe(l).type = "error"
        /\ Len(calls[m]) = 1 /\ IsAbort(LastProbe(m))

\* C11: on a static network, a second run of checkUrls over the same input,
\* on the same checker or on another one, ends with the bucket counts of the
\* first, whatever the order in which the probes of a chunk completed.
C11_SecondRunSameCounts ==
    (pc = "done" /\ previous # <<>>) => Counts(results) = previous[1]

\* Two runs are complete, of two records that ended in different buckets
C11_Witness ==
    /\ pc = "done"
    /\ previous # <<>>
    /\ Len(urls) = 2
    /\ Len(results.timeouts) = 1
    /\ Len(results.working) + Len(results.warnings) = 1

Threw(l, i) == calls[l][i].kind = "throw"

IsRetryOutcome(value) ==
    /\ OutcomeFields \subseteq DOMAIN value
    /\ value.timeout \in BOOLEAN
    /\ value.status \in {Num(200), Str("TIMEOUT"), Str("ERROR")}

\* C14: checkSingleUrlWithRetry never rejects: whether the wrapped call
\* returned or threw, a transient failure or another, before or after the
\* retries are used up, its promise is pending or fulfilled with an outcome.
C14_RetryPolicyNeverRejects ==
    \A k \in DOMAIN promises :
        /\ promises[k].st # "rejected"
        /\ promises[k].st = "fulfilled" => IsRetryOutcome(promises[k].value)

\* Every call for a record threw a transient failure until no retry was
\* left, the call for another threw a failure that is not retried, and both
\* promises are fulfilled
C14_Witness ==
    /\ pc = "await"
    /\ Len(promises) = 2
    /\ \A k \in DOMAIN promises : promises[k].st = "fulfilled"
    /\ \E l \in Lines : \E m \in Lines :
          /\ Len(calls[l]) = checker.maxRetries
          /\ \A i \in DOMAIN calls[l] : Threw(l, i)
          /\ Len(calls[m]) = 1
          /\ Threw(m, 1) /\ calls[m][1].error.name = "Error"

\* The promise of the record of line l rejected
PipelineRejected(l) ==
    calls[l] # <<>> /\ calls[l][Len(calls[l])].kind = "reject"

RejectionMessage(l) == calls[l][Len(calls[l])].reason.message

\* The bucket for what the fetch of a record ended with
OwnBucket(ev) ==
    IF IsAbort(ev) THEN "timeouts"
    ELSE IF ev.type = "response" /\ ev.response.status \in 200..299 THEN "working"
    ELSE IF ev.type = "response" /\ ev.response.status \in 300..399 THEN "warnings"
    ELSE "errors"

\* C15: when the run is complete, a record whose promise rejected has one
\* entry, in errors, with status 'ERROR' and the message of the rejection or
\* 'Unknown error'; every other record, of that chunk and of the later ones,
\* was probed and is in the bucket of its own outcome, once.
C15_RejectedPipelineIntoErrors ==
    pc = "done" =>
        \A l \in Lines :
            IF PipelineRejected(l)
            THEN /\ InBucketOnly("errors", l)
                 /\ EntryFor("errors", l).status = Str("ERROR")
                 /\ EntryFor("errors", l).error \in {RejectionMessage(l), "Unknown error"}
                 /\ EntryFor("errors", l).error = "Unknown error"
                       <=> RejectionMessage(l) \in {Undefined, ""}
            ELSE /\ Probed(l)
                 /\ InBucketOnly(OwnBucket(LastProbe(l)), l)

\* Of a first chunk of two records one answered 200 and the promise of the
\* other rejected, and the record of the second chunk ran into the timeout
C15_Witness ==
    /\ pc = "done"
    /\ Len(chunks) = 2
    /\ Len(urls) = 3
    /\ InBucketOnly("working", 1)
    /\ PipelineRejected(2)
    /\ InBucketOnly("errors", 2)
    /\ InBucketOnly("timeouts", 3)

\* C16: a run that has started completes, having processed every record,
\* even when no fetch is ever answered: given that timers fire, the run does
\* not wait for ever on a chunk.
C16_RunCompletes ==
    (pc # "idle") ~> (pc = "done" /\ processed = Len(urls) /\ BucketTotal = Len(urls))

\* A run of two records is complete and the network never answered: every
\* probe of a valid URL was aborted by the timeout
C16_Witness ==
    /\ pc = "done"
    /\ Len(urls) = 2
    /\ processed = 2
    /\ \A l \in Lines : urls[l].url \in ValidUrls => NeverResponds(l)
    /\ \A l \in Lines : \A i \in DOMAIN probes[l] : probes[l][i].type # "response"

Default(option) ==
    CASE option = "concurrent" -> 10
      [] option = "timeout"    -> 5000
      [] option = "maxRetries" -> 2

\* C17: the checker has each option as the caller supplied it, a maxRetries
\* of 0 included, and the default (concurrent 10, timeout 5000, maxRetries 2)
\* only for an option the caller did not supply.
C17_OptionsUsedAsSupplied ==
    \A option \in {"concurrent", "timeout", "maxRetries"} :
        checker[option] = IF options[option] # <<>> THEN options[option][1]
                          ELSE Default(option)

\* C18: when the process of a `check` command has ended, a check has run and
\* its report was printed, and the exit code is 0 for the verdict true and 1
\* for the verdict false.
C18_ExitCodeFollowsVerdict ==
    (argv = <<"check">> /\ exitCode # <<>>) =>
        /\ report # NoReport
        /\ exitCode = <<IF report[1].success THEN 0 ELSE 1>>

IsIn(status, lo, hi) == \E n \in lo..hi : status = Num(n)

\* The bucket by precedence: the timeout flag, then the 2xx range, then the
\* 3xx range, then everything else; a rejected promise counts as everything
\* else
ByPrecedence(result) ==
    IF result.st = "rejected" THEN "errors"
    ELSE IF result.value.timeout THEN "timeouts"
    ELSE IF IsIn(result.value.status, 200, 299) THEN "working"
    ELSE IF IsIn(result.value.status, 300, 399) THEN "warnings"
    ELSE "errors"

\* C20: every settled promise of the chunk puts its record in exactly one
\* bucket, the one given by the precedence: timeout flag true -> timeouts
\* whatever the status; else 200..299 -> working; else 300..399 -> warnings;
\* else (1xx, 4xx, 5xx, a sentinel, a status that is no number) -> errors.
C20_ClassificationByPrecedence ==
    pc = "done" =>
        \A k \in DOMAIN promises : InBucketOnly(ByPrecedence(promises[k]), k)

\* An outcome with the timeout flag and status 200 went to timeouts and one
\* with a status that is no number went to errors
C20_Witness ==
    /\ pc = "done"
    /\ Len(promises) = 2
    /\ promises[1].st = "fulfilled" /\ promises[2].st = "fulfilled"
    /\ promises[1].value.timeout /\ promises[1].value.status = Num(200)
    /\ ~promises[2].value.timeout /\ promises[2].value.status = Str("n/a")
    /\ InBucketOnly("timeouts", 1)
    /\ InBucketOnly("errors", 2)

\* The promise of the record of line l, when it is of the chunk at work
OfChunk(l) == \E k \in DOMAIN promises : Line(chunks[chunkIdx][k]) = l
PromiseOf(l) == promises[CHOOSE k \in DOMAIN promises : Line(chunks[chunkIdx][k]) = l]

\* C21: a fetch that the timeout aborted makes its call of checkSingleUrl
\* return status TIMEOUT with the timeout flag and a response time equal to
\* the configured timeout; a request is in flight only while its call has
\* not returned.
C21_TimeoutOutcome ==
    \A l \in Lines :
        /\ \A i \in DOMAIN calls[l] :
              IsAbort(probes[l][i]) =>
                  /\ calls[l][i].kind = "return"
                  /\ calls[l][i].value.status = Str("TIMEOUT")
                  /\ calls[l][i].value.timeout = TRUE
                  /\ calls[l][i].value.responseTime = checker.timeout
        /\ \A i \in DOMAIN probes[l] :
              probes[l][i] = InFlight =>
                  /\ i = Len(calls[l]) + 1
                  /\ pc = "await" /\ OfChunk(l) /\ PromiseOf(l).st = "fetching"

\* With a timeout of 8000 ms, a fetch was aborted and its call has returned
\* while the fetch of the other record of the chunk is in flight
C21_Witness ==
    /\ checker.timeout = 8000
    /\ \E l \in Lines : \E m \in Lines :
          /\ Len(calls[l]) = 1 /\ IsAbort(probes[l][1])
          /\ Len(probes[m]) = 1 /\ probes[m][1] = InFlight

\* The code of a failure, when it has one, and its message otherwise
CauseOf(error) == IF error.code # Undefined THEN error.code ELSE error.message

\* C22: a fetch that failed otherwise than by the abort of the timeout makes
\* its call of checkSingleUrl return status ERROR, without the timeout flag,
\* with the code of the failure as error, or its message when it has no code.
C22_TransportErrorOutcome ==
    \A l \in Lines : \A i \in DOMAIN calls[l] :
        (probes[l][i].type = "error" /\ ~IsAbort(probes[l][i])) =>
            /\ calls[l][i].kind = "return"
            /\ calls[l][i].value.status = Str("ERROR")
            /\ calls[l][i].value.timeout = FALSE
            /\ calls[l][i].value.error = CauseOf(probes[l][i].error)

\* A fetch failed with a code (connection reset) and another with a message
\* only, and both calls have returned
C22_Witness ==
    \E l \in Lines : \E m \in Lines :
        /\ Len(calls[l]) = 1 /\ IsReset(probes[l][1])
        /\ calls[l][1].value.error = "ECONNRESET"
        /\ Len(calls[m]) = 1 /\ probes[m][1].type = "error"
        /\ probes[m][1].error.code = Undefined
        /\ calls[m][1].value.error = "Invalid URL"

\* C30: a call of checkSingleUrl whose fetch got a response returns a numeric
\* status without the timeout flag; redirected is true exactly when finalUrl
\* is set, and finalUrl is set, to the URL of the response, exactly when
\* that URL is not the requested one.
C30_RedirectedIffFinalUrl ==
    \A l \in Lines : \A i \in DOMAIN calls[l] :
        probes[l][i].type = "response" =>
            LET value    == calls[l][i].value
                response == probes[l][i].response
                differs  == response.url # Normalize(urls[l].url)
            IN  /\ IsNum(value.status)
                /\ value.timeout = FALSE
                /\ value.redirected <=> value.finalUrl # Undefined
                /\ value.finalUrl # Undefined <=> differs
                /\ value.finalUrl # Undefined => value.finalUrl = response.url

\* The attempt ended by the timeout: the abort of the fetch, or a timeout the
\* check operation threw
TimedOut(ev) == ev.type = "error" /\ ev.error.name \in {"AbortError", "TimeoutError"}

C27_MergedOnlyAfterJoin ==
    pc = "await" =>
        /\ \A l \in Lines : Classified(l) = IF ChunkOf(l) < chunkIdx THEN 1 ELSE 0
        /\ BucketTotal = Cardinality({ l \in Lines : ChunkOf(l) < chunkIdx })

\* The second chunk waits for a retry of its record, the record of the first
\* chunk is in its bucket and the record of the second is in none
C27_Witness ==
    /\ pc = "await"
    /\ chunkIdx = 2
    /\ \E k \in DOMAIN promises : promises[k].st = "sleeping"
    /\ \E l \in Lines : ChunkOf(l) = 1 /\ Classified(l) = 1
    /\ \E l \in Lines : ChunkOf(l) = 2 /\ Classified(l) = 0

\* C24: a run with m chunks makes max(0, m - 1) pauses of 100 ms, the i-th
\* after the classification of chunk i and before the first probe of chunk
\* i + 1: none before the first chunk, none after the last.
C24_PausesBetweenChunks ==
    /\ pauses = [i \in 1..Len(pauses) |-> [after |-> i, ms |-> 100]]
    /\ Len(pauses) = CASE pc = "idle"  -> 0
                       [] pc = "await" -> chunkIdx - 1
                       [] pc = "pause" -> chunkIdx
                       [] pc = "done"  -> IF Len(chunks) = 0 THEN 0 ELSE Len(chunks) - 1
    /\ pc = "pause" =>
          /\ chunkIdx < Len(chunks)
          /\ \A l \in Lines : ChunkOf(l) = chunkIdx => Classified(l) = 1
          /\ \A l \in Lines : ChunkOf(l) = chunkIdx + 1 => probes[l] = <<>>

\* A run of three chunks has returned after two pauses
C24_Witness ==
    /\ pc = "done"
    /\ Len(chunks) = 3
    /\ Len(pauses) = 2

\* C25: a 'processed/total' marker is written exactly when the count of
\* processed records reaches 50, 100, ...: whatever the chunk size and
\* wherever the chunk boundaries fall, the markers written so far are those
\* of the multiples of 50 up to the count, in order, and a run over N records
\* has written floor(N / 50) of them when it returns.
C25_MarkerEveryFifty ==
    /\ markers = [i \in 1..(processed \div 50) |->
                     [processed |-> 50 * i, total |-> Len(urls)]]
    /\ pc = "done" =>
          /\ processed = Len(urls)
          /\ Len(markers) = Len(urls) \div 50

\* A run over 100 records in chunks of 3 has returned: 50 and 100 were
\* reached inside the 17th chunk and by the 34th, of one record
C25_Witness ==
    /\ pc = "done"
    /\ Len(urls) = 100
    /\ checker.concurrent = 3
    /\ Len(chunks) = 34
    /\ markers = <<[processed |-> 50, total |-> 100], [processed |-> 100, total |-> 100]>>

\* C28: no step of a run changes the caller's input: the sequence keeps its
\* length and order and every record its fields and their values.
C28_InputNeverMutated == [][urls' = urls]_vars

\* A run over two records has returned entries carrying the fields of a
\* check, which the records of the input do not have
C28_Witness ==
    /\ pc = "done"
    /\ Len(urls) = 2
    /\ BucketTotal = 2
    /\ \A b \in BucketNames : \A i \in DOMAIN results[b] :
          /\ "status" \in DOMAIN results[b][i]
          /\ \A l \in Lines : "status" \notin DOMAIN urls[l]

\* The position in bucket b of the entry of input line l
PositionIn(b, l) == CHOOSE i \in DOMAIN results[b] : Line(results[b][i]) = l

\* Whether the k-th promise of the chunk settled before the j-th
SettledBefore(k, j) ==
    \E x, y \in DOMAIN order.seq : x < y /\ order.seq[x] = k /\ order.seq[y] = j

\* Two records of the chunk just classified, at indexes j < k, both in b
SameChunkSameBucket(b, j, k) ==
    /\ pc \in {"pause", "done"}
    /\ j \in DOMAIN promises /\ k \in DOMAIN promises
    /\ j < k
    /\ InBucketOnly(b, Line(chunks[chunkIdx][j]))
    /\ InBucketOnly(b, Line(chunks[chunkIdx][k]))

\* C26, as claimed: when two records of one chunk land in the same bucket and
\* the check of the later-positioned one completed first, its entry precedes
\* the other's in the bucket.
C26_AppendedInCompletionOrder ==
    \A b \in BucketNames : \A j, k \in DOMAIN promises :
        (SameChunkSameBucket(b, j, k) /\ SettledBefore(k, j)) =>
            PositionIn(b, Line(chunks[chunkIdx][k])) < PositionIn(b, Line(chunks[chunkIdx][j]))

\* C26, amended: when two records of one chunk land in the same bucket, the
\* entry of the earlier-positioned one precedes the other's, whichever check
\* completed first; over the run, the entries of one chunk in a bucket are in
\* input order.
C26_AppendedInInputOrder ==
    /\ \A b \in BucketNames : \A j, k \in DOMAIN promises :
          SameChunkSameBucket(b, j, k) =>
              PositionIn(b, Line(chunks[chunkIdx][j])) < PositionIn(b, Line(chunks[chunkIdx][k]))
    /\ results # NoResults =>
          \A b \in BucketNames : \A i, h \in DOMAIN results[b] :
              (i < h /\ ChunkOf(Line(results[b][i])) = ChunkOf(Line(results[b][h]))) =>
                  Line(results[b][i]) < Line(results[b][h])

\* The check of the fourth record of a chunk completed before that of the
\* first, both are in working, and the first record's entry comes first
C26_Witness ==
    /\ SameChunkSameBucket("working", 1, 4)
    /\ SettledBefore(4, 1)
    /\ PositionIn("working", Line(chunks[chunkIdx][1]))
          < PositionIn("working", Line(chunks[chunkIdx][4]))

\* The invocations made so far
Invoked == { r \in DOMAIN runs : runs[r].pc # "idle" }

\* How many entries of bucket b of the ResultSet res come from input line l
EntriesOf(res, b, l) ==
    Cardinality({ i \in DOMAIN res[b] : Line(res[b][i]) = l /\ res[b][i].url = urls[l].url })

\* The ResultSet res holds one entry for every record of the input and no
\* other
HoldsTheInput(res) ==
    /\ Len(res.working) + Len(res.warnings) + Len(res.errors) + Len(res.timeouts)
          = Len(urls)
    /\ \A l \in Lines :
          EntriesOf(res, "working", l) + EntriesOf(res, "warnings", l)
            + EntriesOf(res, "errors", l) + EntriesOf(res, "timeouts", l) = 1

\* C29: every invocation of checkUrls allocates a ResultSet of its own, with
\* four empty buckets; whether the invocations follow each other or overlap,
\* a ResultSet changes only in the forEach of the invocation that allocated
\* it, and the ResultSet of an invocation that has returned holds one entry
\* for each record of its input and never changes again, printReport
\* included.
C29_ResultSetPerInvocation ==
    /\ [](\A r, q \in Invoked : r # q => runs[r].ref # runs[q].ref)
    /\ [](\A r \in Invoked : runs[r].pc = "done" => HoldsTheInput(heap[runs[r].ref]))
    /\ [][\A r \in DOMAIN runs :
            (runs[r].pc = "idle" /\ runs'[r].pc # "idle") =>
                /\ runs'[r].ref \notin DOMAIN heap
                /\ heap'[runs'[r].ref] =
                      [ working |-> <<>>, errors |-> <<>>, warnings |-> <<>>,
                        timeouts |-> <<>>, total |-> Len(urls) ]]_vars
    /\ [][\A c \in DOMAIN heap :
            heap'[c] # heap[c] =>
                \E r \in Invoked :
                    /\ runs[r].ref = c
                    /\ runs[r].pc = "await"
                    /\ runs'[r].processed = runs[r].processed + Len(runs[r].promises)
                    /\ \A q \in DOMAIN runs : q # r => runs'[q] = runs[q]]_vars
    /\ [][\A r \in Invoked :
            runs[r].pc = "done" =>
                /\ runs'[r].pc = "done"
                /\ runs'[r].ref = runs[r].ref
                /\ heap'[runs[r].ref] = heap[runs[r].ref]]_vars

\* The invocations overlap: the second, made after the first, has returned
\* its ResultSet of two entries and it was passed to printReport, while the
\* first, with the entry of its first chunk, still waits for a fetch
C29_Witness ==
    /\ Len(urls) = 2
    /\ runs[1].pc = "await"
    /\ \E k \in DOMAIN runs[1].promises : runs[1].promises[k].st = "fetching"
    /\ Len(heap[runs[1].ref].working) + Len(heap[runs[1].ref].errors) > 0
    /\ runs[2].pc = "done"
    /\ runs[2].report # NoReport
    /\ HoldsTheInput(heap[runs[2].ref])

\* The fields of a URL record
RecordFields == {"url", "lastmod", "changefreq", "priority", "source"}

\* C32: every entry of a bucket is its URL record merged with its outcome: it
\* has the record's url, lastmod, changefreq, priority and source, unchanged,
\* and a status and a status text; the entry of a check that returned has
\* every field of the returned outcome, timeout flag and response time
\* included, and the entry of a rejected promise has the synthesized status,
\* status text and error and nothing more.
C32_EntryIsRecordMergedWithOutcome ==
    results # NoResults =>
        \A b \in BucketNames : \A i \in DOMAIN results[b] :
            LET entry == results[b][i]
                l     == Line(entry)
                last  == calls[l][Len(calls[l])]
            IN  /\ l \in Lines
                /\ RecordFields \subseteq DOMAIN entry
                /\ \A f \in RecordFields : entry[f] = urls[l][f]
                /\ {"status", "statusText"} \subseteq DOMAIN entry
                /\ last.kind = "return" =>
                      /\ DOMAIN entry = RecordFields \cup DOMAIN last.value
                      /\ {"timeout", "responseTime"} \subseteq DOMAIN last.value
                      /\ \A f \in DOMAIN last.value : entry[f] = last.value[f]
                /\ last.kind = "reject" =>
                      /\ DOMAIN entry = RecordFields \cup {"status", "statusText", "error"}
                      /\ entry.status = Str("ERROR")
                      /\ entry.statusText = "Promise rejected"

\* A completed run holds the entry of a check that timed out and the entry
\* of a rejected promise
C32_Witness ==
    /\ pc = "done"
    /\ \E i \in DOMAIN results.timeouts : results.timeouts[i].timeout = TRUE
    /\ \E i \in DOMAIN results.errors :
          /\ results.errors[i].statusText = "Promise rejected"
          /\ "timeout" \notin DOMAIN results.errors[i]

\* Whether sequence s begins with sequence t
BeginsWith(s, t) == Len(t) <= Len(s) /\ SubSeq(s, 1, Len(t)) = t

\* C33: whenever checkUrls waits or has returned, processed is the sum of the
\* lengths of the four buckets and is at most total; and every step leaves
\* each bucket beginning with what it held: no entry is ever removed, moved
\* or modified.
C33_ProcessedIsBucketTotal ==
    /\ [](results # NoResults =>
            /\ processed = BucketTotal
            /\ processed <= results.total)
    /\ [][results # NoResults =>
            \A b \in BucketNames : BeginsWith(results'[b], results[b])]_vars

\* The third chunk is awaited: the entries of the first two are counted and
\* records remain
C33_Witness ==
    /\ pc = "await"
    /\ chunkIdx = 3
    /\ processed = 2 * checker.concurrent
    /\ BucketTotal = processed
    /\ processed < results.total
    /\ results.working # <<>> /\ results.errors # <<>>

\* The entries of the buckets, each with the name of its bucket
Entries ==
    UNION { { [bucket |-> b, entry |-> results[b][i]] : i \in DOMAIN results[b] }
            : b \in BucketNames }

\* C34: the bucket of a record is a function of the timeout flag and the
\* status of its outcome: two entries that agree on both are in the same
\* bucket whatever their redirected flags and final URLs, and the entry of a
\* followed redirect that ended in a 2xx status is in working.
C34_RedirectFlagNotClassified ==
    results # NoResults =>
        /\ \A x, y \in Entries :
              ( x.entry.timeout = y.entry.timeout /\ x.entry.status = y.entry.status )
                  => x.bucket = y.bucket
        /\ \A x \in Entries :
              ( ~x.entry.timeout /\ IsIn(x.entry.status, 200, 299) )
                  => x.bucket = "working"

\* working holds the entry of a followed redirect, with its final URL, next
\* to the entry of a page that answered 200 itself
C34_Witness ==
    /\ pc = "done"
    /\ Len(results.working) = 2
    /\ results.working[1].redirected = TRUE
    /\ results.working[1].finalUrl = "http://b/"
    /\ results.working[1].status = Num(200)
    /\ results.working[2].redirected = FALSE
    /\ results.working[2].status = Num(200)

\* The timers of the attempts in flight: one for each promise of the chunk
\* that waits for its fetch
InFlightTimers ==
    IF pc = "await"
    THEN { Timer(Line(chunks[chunkIdx][k]), promises[k].attempt) :
             k \in { j \in DOMAIN promises : promises[j].st = "fetching" } }
    ELSE {}

\* C36: a call of checkSingleUrl cancels its timeout timer when fetch
\* resolves and when it rejects: the pending timers are those of the attempts
\* in flight, so no timer of a call that has completed is pending and the
\* only timer that runs is that of a fetch in flight.
C36_TimerClearedOnBothPaths ==
    /\ [](timers = InFlightTimers)
    /\ [][\A timer \in timers \ timers' :
            /\ timer \in InFlightTimers
            /\ Len(calls'[timer.line]) = timer.attempt]_vars

\* The two records of a chunk were checked, one answered and one failed
\* without a response; both calls have completed and no timer is pending
C36_Witness ==
    /\ pc = "await"
    /\ Len(promises) = 2
    /\ \A k \in DOMAIN promises : promises[k].st = "fulfilled"
    /\ LastProbe(1).type = "response"
    /\ LastProbe(2).type = "error" /\ ~IsAbort(LastProbe(2))
    /\ timers = {}

\* C35, as claimed: whatever integer the `concurrent` option is, the checker
\* partitions with a chunk size of at least 1 and the loop of chunkArray
\* ends, after at most one iteration for each record of the input.
C35_ChunkSizeAtLeastOne ==
    pc # "idle" =>
        /\ checker.concurrent >= 1
        /\ pc # "chunking"
        /\ Len(chunks) <= Len(urls)

\* C31, as claimed: a run over zero records is a fatal failure: checkUrls
\* does not return to its caller with a ResultSet, empty or not.
C31_ZeroRecordsIsFatal ==
    urls = <<>> => pc # "done"

====
